---------------------------- MODULE Spec2Model ----------------------------
(***************************************************************************)
(* Ledger replay of one holding (xalpha/trade.py, class trade).            *)
(*                                                                         *)
(* Units.  Shares and cash are kept in hundredths (the two-decimal         *)
(* convention of myround), instruction values in ten-thousandths ("ticks", *)
(* so that the ratio threshold -0.005 is the integer -50), net values,     *)
(* dividend amounts and split ratios in hundredths.  A date is a day       *)
(* number; Yesterday is the day yesterdayobj() gives, and the status and   *)
(* price tables hold rows for the days up to After days later.             *)
(*                                                                         *)
(* Floats.  The arithmetic of _addrow (lines 182-185, 196-198, 204, 209,   *)
(* 214, 218, 224) is computed on IEEE 754 doubles, kept as a sign, a       *)
(* 53-bit significand and an exponent.  What myround returns is the float  *)
(* that reads a number of hundredths, and is kept as that number; the      *)
(* share cell of a ledger row, which additions of such floats may leave    *)
(* off the float that reads its two places, is kept as the float too.      *)
(*                                                                         *)
(* The lot lists of the snapshot table are Python lists, i.e. references:  *)
(* heap is the sequence of list objects allocated so far, and a snapshot   *)
(* row holds the index of its list.                                        *)
(*                                                                         *)
(* Specifications.  Spec replays a status table that is revealed day by    *)
(* day (step is what the last call of _addrow read); FairSpec is Spec with *)
(* the loop of _arrange running on; Scenario replays status tables fixed   *)
(* in advance (status) and reports bottleneck and turnoverrate of the      *)
(* ledger; Ledgers applies bottleneck and turnoverrate to ledgers drawn    *)
(* from a bounded set.                                                     *)
(***************************************************************************)
EXTENDS Integers, Sequences, FiniteSets, TLC

VARIABLES cftable, remtable, heap, pc, err, step, status, report

vars == <<cftable, remtable, heap, pc, err, step, status, report>>

(***************************** bounds **************************************)
Yesterday == 2
MaxSettle == 1
\* the days after Yesterday for which the status and price tables hold rows
After == 1

\* the last day of the status tables fixed in advance and of the ledgers
LastDay == 5
\* the longest ledger handed to bottleneck and turnoverrate
MaxRows == 3

(************************* program constants *******************************)
\* -0.005 in ticks: the threshold between share-count and ratio redemption
RatioThreshold == 0 - 50
\* 0.005 in ticks: the divisor of the ratio redemption
RatioUnit == 50

EndOfInputMsg == "no other info to be add into cashflow table"
PrematureSellMsg == "You cannot sell first when you never buy"
BadCommentMsg == "comments not recoginized"
UnboundMsg == "cannot access local variable 'dcash2' where it is not associated with a value"
NotEnoughMsg == "not enough shares to be sold"
ZeroDivisionMsg == "float division by zero"

(************************* input alphabets *********************************)
\* instruction values (ticks): buy 1.00, buy 0.50, 0.25 (reinvest marker),
\* sell 1.20 shares, sell 0.50 shares, ratio 100%, ratio 50%, no instruction
Values == {10000, 5000, 2500, 0 - 12000, 0 - 5000, 0 - 50, 0 - 25, 0}
\* instruction values of the status tables fixed in advance: buy 1000.00, buy
\* 500.00, ratio 100%, ratio 50%, sell 500.00 shares, no instruction
ScenarioValues == {10000000, 5000000, 0 - 50, 0 - 25, 0 - 5000000, 0}
\* comment column of the price table on a special date, when it is a float:
\* split by 2, by 1.5, by 0.5, dividend 0.05 per share, a float that is neither
Comments == {0 - 200, 0 - 150, 0 - 50, 5, 0}
\* the netvalue column of the price table: 1.00 on odd days, 2.00 on even days
NetValue(d) == IF d % 2 = 0 THEN 200 ELSE 100

(***************************** arithmetic **********************************)
\* cons.myround: num/den rounded half-up (away from zero) to an integer
MyRound(num, den) ==
    IF num >= 0 THEN (2 * num + den) \div (2 * den)
    ELSE 0 - ((2 * (0 - num) + den) \div (2 * den))

RECURSIVE SumShares(_)
\* sum([sh for _, sh in rem])
SumShares(lots) ==
    IF lots = <<>> THEN 0 ELSE lots[1][2] + SumShares(Tail(lots))

RECURSIVE SumCash(_)
\* sum(cftable.iloc[:i].cash), for the rows cf
SumCash(cf) ==
    IF cf = <<>> THEN 0 ELSE cf[1].cash + SumCash(Tail(cf))

RECURSIVE SumPaidIn(_)
\* the cash paid in alone: the amounts paid out left out of the sum
SumPaidIn(cf) ==
    IF cf = <<>> THEN 0
    ELSE (IF cf[1].cash < 0 THEN 0 - cf[1].cash ELSE 0) + SumPaidIn(Tail(cf))

RECURSIVE SumAbsCash(_)
\* line 62: sum(abs(cftable.loc[:, 'cash']))
SumAbsCash(cf) ==
    IF cf = <<>> THEN 0
    ELSE (IF cf[1].cash < 0 THEN 0 - cf[1].cash ELSE cf[1].cash)
         + SumAbsCash(Tail(cf))

\* max(inputl)
Max(S) == CHOOSE x \in S : \A y \in S : y <= x

(******************** floats: IEEE 754 doubles *****************************)
\* A double is [s, hi, lo, e]: the sign s (1, -1, or 0 for 0.0), the
\* significand hi * 2^27 + lo of 53 bits (2^25 <= hi < 2^26, lo < 2^27) and
\* the exponent e of its leading bit; its value is
\* s * (hi * 2^27 + lo) * 2^(e - 52).  The operations round to nearest, ties
\* to even, as the hardware does.
Double(hi, lo, e) == [s |-> 1, hi |-> hi, lo |-> lo, e |-> e]

Zero == [s |-> 0, hi |-> 0, lo |-> 0, e |-> 0]

RECURSIVE Pow2(_)
Pow2(n) == IF n = 0 THEN 1 ELSE 2 * Pow2(n - 1)

\* the powers of two that fit a machine word of the checker
Two == [n \in 0..30 |-> Pow2(n)]

RECURSIVE Exponent(_, _)
\* the e with 2^e <= p/q < 2^(e + 1), for p, q > 0
Exponent(p, q) ==
    IF p >= 2 * q THEN 1 + Exponent(p, 2 * q)
    ELSE IF p < q THEN Exponent(2 * p, q) - 1
    ELSE 0

RECURSIVE DivBits(_, _, _, _)
\* the next n bits of the quotient r/den (r < den) appended to the bits acc,
\* and what is left of the dividend
DivBits(r, den, n, acc) ==
    IF n = 0 THEN [q |-> acc, r |-> r]
    ELSE IF 2 * r >= den THEN DivBits(2 * r - den, den, n - 1, 2 * acc + 1)
    ELSE DivBits(2 * r, den, n - 1, 2 * acc)

\* the low 27 bits after the high 26 bits h
LowBits(h, den, e) ==
    [hi |-> h.q, e |-> e, den |-> den, low |-> DivBits(h.r, den, 27, 0)]

\* the 53 bits of num/den, for 1 <= num/den < 2
Significand(num, den, e) ==
    LowBits(DivBits(num - den, den, 25, 1), den, e)

Scaled(p, q, e) ==
    IF e < 0 THEN Significand(p * Two[0 - e], q, e)
    ELSE Significand(p, q * Two[e], e)

\* p/q cut to 53 bits: hi, low.q and e, with low.r/den of a unit in the last
\* place cut off
Truncated(p, q) == Scaled(p, q, Exponent(p, q))

\* the next double up
Succ(hi, lo, e) ==
    IF lo + 1 < Two[27] THEN Double(hi, lo + 1, e)
    ELSE IF hi + 1 < Two[26] THEN Double(hi + 1, 0, e)
    ELSE Double(Two[25], 0, e + 1)

\* round to nearest, ties to even: twice/unit is the part cut off, in halves
\* of a unit in the last place
Nearest(hi, lo, e, twice, unit) ==
    IF twice > unit \/ (twice = unit /\ lo % 2 = 1) THEN Succ(hi, lo, e)
    ELSE Double(hi, lo, e)

Rounded(t) == Nearest(t.hi, t.low.q, t.e, 2 * t.low.r, t.den)

\* the double nearest to p/q (p, q > 0): the float that reads as p/q
Float(p, q) == Rounded(Truncated(p, q))

\* the double d with the sign s
Signed(s, d) == [s |-> s, hi |-> d.hi, lo |-> d.lo, e |-> d.e]

\* the double nearest to p/q for any integer p (q > 0)
FloatOf(p, q) ==
    IF p = 0 THEN Zero
    ELSE IF p > 0 THEN Float(p, q)
    ELSE Signed(0 - 1, Float(0 - p, q))

\* -x
Neg(x) == Signed(0 - x.s, x)

\* the sign of |a| - |b|, for a and b not 0.0
CmpMag(a, b) ==
    IF a.e # b.e THEN (IF a.e > b.e THEN 1 ELSE 0 - 1)
    ELSE IF a.hi # b.hi THEN (IF a.hi > b.hi THEN 1 ELSE 0 - 1)
    ELSE IF a.lo # b.lo THEN (IF a.lo > b.lo THEN 1 ELSE 0 - 1)
    ELSE 0

\* An intermediate result is H * 2^30 + L: the 53 bits of a significand and
\* three bits more, the last of them set when anything was cut off below it.
Jam(H, L, lost) == [H |-> H, L |-> IF lost /\ L % 2 = 0 THEN L + 1 ELSE L]

\* H * 2^30 + L shifted right by k bits
ShiftRight(H, L, k) ==
    IF k = 0 THEN [H |-> H, L |-> L]
    ELSE IF k < 30
    THEN Jam(H \div Two[k], (H % Two[k]) * Two[30 - k] + L \div Two[k],
             L % Two[k] # 0)
    ELSE IF k < 57
    THEN Jam(0, H \div Two[k - 30], H % Two[k - 30] # 0 \/ L # 0)
    ELSE Jam(0, 0, TRUE)

\* the intermediate result of 56 bits rounded to a double
RoundExt(s, H, L, e) == Signed(s, Nearest(H, L \div 8, e, L % 8, 4))

RECURSIVE NormExt(_, _, _, _)
\* the intermediate result brought to 56 bits, then rounded
NormExt(s, H, L, e) ==
    IF H >= Two[26]
    THEN RoundExt(s, H \div 2,
                  Jam(0, (H % 2) * Two[29] + L \div 2, L % 2 # 0).L, e + 1)
    ELSE IF H = 0 /\ L = 0 THEN Zero
    ELSE IF H < Two[25]
    THEN NormExt(s, 2 * H + L \div Two[29], (2 * L) % Two[30], e - 1)
    ELSE RoundExt(s, H, L, e)

SumExt(s, H, L, e) == NormExt(s, H + L \div Two[30], L % Two[30], e)

DiffExt(s, H, L, e) ==
    IF L < 0 THEN NormExt(s, H - 1, L + Two[30], e) ELSE NormExt(s, H, L, e)

\* |a| + |b| and |a| - |b| with the sign s, for |a| >= |b|; bs is b shifted
\* to the exponent of a
AddShifted(s, a, bs) == SumExt(s, a.hi + bs.H, 8 * a.lo + bs.L, a.e)
SubShifted(s, a, bs) == DiffExt(s, a.hi - bs.H, 8 * a.lo - bs.L, a.e)
AddMag(s, a, b) == AddShifted(s, a, ShiftRight(b.hi, 8 * b.lo, a.e - b.e))
SubMag(s, a, b) == SubShifted(s, a, ShiftRight(b.hi, 8 * b.lo, a.e - b.e))

AddOrdered(x, y, c) ==
    IF x.s = y.s THEN (IF c >= 0 THEN AddMag(x.s, x, y) ELSE AddMag(x.s, y, x))
    ELSE IF c = 0 THEN Zero
    ELSE IF c > 0 THEN SubMag(x.s, x, y)
    ELSE SubMag(y.s, y, x)

\* x + y
Add(x, y) ==
    IF x.s = 0 THEN y ELSE IF y.s = 0 THEN x ELSE AddOrdered(x, y, CmpMag(x, y))

\* the significand of d times 8 as four digits of 14 bits, lowest first
DigitsFrom(low, high) ==
    <<low % Two[14], (low \div Two[14]) % Two[14],
      high % Two[14], high \div Two[14]>>

Digits(d) == DigitsFrom(8 * d.lo, 4 * d.hi + (8 * d.lo) \div Two[28])

\* the digit of weight 2^(14 (i - 1)) of the digits a
Digit(a, i) == IF i \in 1..4 THEN a[i] ELSE 0

\* the sum of the products of the digits of a and b of weight 2^(14 k)
Column(a, b, k) ==
    a[1] * Digit(b, k + 1) + a[2] * Digit(b, k) + a[3] * Digit(b, k - 1)
        + a[4] * Digit(b, k - 2)

RECURSIVE Carried(_, _, _, _, _)
\* the eight digits of the product of a and b, for t the column k and what
\* the columns below it carried
CarryStep(a, b, k, t, acc) ==
    Carried(a, b, k + 1, t \div Two[14], Append(acc, t % Two[14]))

Carried(a, b, k, carry, acc) ==
    IF k = 8 THEN acc ELSE CarryStep(a, b, k, Column(a, b, k) + carry, acc)

\* the upper 56 bits H * 2^30 + L of a product, the rest jammed in, rounded
ProductExt(s, H, L, sticky, e) ==
    IF H >= Two[25] THEN RoundExt(s, H, Jam(0, L, sticky).L, e + 1)
    ELSE RoundExt(s, 2 * H + L \div Two[29],
                  ((2 * L) % Two[30]) + (IF sticky THEN 1 ELSE 0), e)

ProductOf(s, c, e) ==
    ProductExt(s, c[8] * Two[12] + c[7] \div 4,
               (c[7] % 4) * Two[28] + c[6] * Two[14] + c[5],
               c[1] # 0 \/ c[2] # 0 \/ c[3] # 0 \/ c[4] # 0, e)

\* x * y
Mul(x, y) ==
    IF x.s = 0 \/ y.s = 0 THEN Zero
    ELSE ProductOf(x.s * y.s, Carried(Digits(x), Digits(y), 0, 0, <<>>),
                   x.e + y.e)

\* the remainder rh * 2^27 + rl is not less than the divisor d
Covers(rh, rl, d) == rh > d.hi \/ (rh = d.hi /\ rl >= d.lo)

RECURSIVE Quotient(_, _, _, _, _, _, _)
\* long division: the quotient qh * 2^30 + ql grows by a bit at a time to 56
\* bits, what is left of the dividend is jammed in
Quotient(s, rh, rl, d, qh, ql, e) ==
    IF qh >= Two[25] THEN RoundExt(s, qh, Jam(0, ql, rh # 0 \/ rl # 0).L, e)
    ELSE IF Covers(rh, rl, d)
    THEN Quotient(s,
                  2 * (rh - d.hi - (IF rl < d.lo THEN 1 ELSE 0))
                      + ((2 * ((rl - d.lo) % Two[27])) \div Two[27]),
                  (2 * ((rl - d.lo) % Two[27])) % Two[27],
                  d, 2 * qh + ql \div Two[29], ((2 * ql) % Two[30]) + 1, e)
    ELSE Quotient(s, 2 * rh + ((2 * rl) \div Two[27]), (2 * rl) % Two[27],
                  d, 2 * qh + ql \div Two[29], (2 * ql) % Two[30], e)

\* x / y, for y not 0.0
Div(x, y) ==
    IF x.s = 0 THEN Zero
    ELSE Quotient(x.s * y.s, x.hi, x.lo, y, 0, 0,
                  IF Covers(x.hi, x.lo, y) THEN x.e - y.e ELSE x.e - y.e - 1)

\* 10 * d for d > 0
Mul10(d) == Mul(Float(10, 1), d)

\* int(d) for d > 0
Floor(d) == IF d.e < 0 THEN 0 ELSE d.hi \div Two[25 - d.e]

\* d - int(d) for d > 0, which is exact
Frac(d) == Add(d, FloatOf(0 - Floor(d), 1))

\* the sign of d - t for d > 0 and t cut from a fraction
CmpTruncated(d, t) ==
    IF d.e # t.e THEN (IF d.e > t.e THEN 1 ELSE 0 - 1)
    ELSE IF d.hi # t.hi THEN (IF d.hi > t.hi THEN 1 ELSE 0 - 1)
    ELSE IF d.lo # t.low.q THEN (IF d.lo > t.low.q THEN 1 ELSE 0 - 1)
    ELSE IF t.low.r = 0 THEN 0 ELSE 0 - 1

\* the sign of d - p/q for d > 0, computed exactly (p >= 0, q > 0)
Cmp(d, p, q) == IF p = 0 THEN 1 ELSE CmpTruncated(d, Truncated(p, q))

\* n + lowp/q < d < n + highp/q
Between(d, n, lowp, highp, q) ==
    Cmp(d, n * q + lowp, q) = 1 /\ Cmp(d, n * q + highp, q) = 0 - 1

\* k if c < 0, k + 1 if c > 0, the even one of the two if c = 0
HalfEven(k, c) ==
    IF c > 0 THEN k + 1 ELSE IF c < 0 THEN k ELSE IF k % 2 = 0 THEN k ELSE k + 1

\* the largest number of tenths that is not above d, near k
TenthBelow(d, k) == IF Cmp(d, k, 10) < 0 THEN k - 1 ELSE k

\* float.__round__(d, 1), in tenths: the decimal of one place nearest to the
\* exact value of d, ties to even
NearestTenth(d, k) == HalfEven(k, Cmp(d, 2 * k + 1, 20))

\* numpy.rint(d): the integer nearest to d, ties to even
Rint(d, n) == HalfEven(n, Cmp(d, 2 * n + 1, 2))

\* float.__round__(d - int(d), 1) == 0.5: the fraction of d is nearer to 0.5
\* than to 0.4 and to 0.6 (a float is never half way)
RoundsToHalf(d) == Between(d, Floor(d), 9, 11, 20)

\* numpy.float64.__round__(f, 1) == 0.5: rint(f * 10) / 10 is 0.5
RintIsFive(f) == f.s # 0 /\ Between(Mul10(f), 0, 9, 11, 2)

\* The floats of the small hundredths and of the decimals half way between
\* them are computed once.
HundredthFloats == [n \in 1..1024 |-> Float(n, 100)]
HalfwayFloats == [k \in 0..1024 |-> Float(2 * k + 1, 200)]

\* the float that reads n/100: what cons.myround returns for n hundredths
Hundredth(n) ==
    IF n \in DOMAIN HundredthFloats THEN HundredthFloats[n] ELSE Float(n, 100)

Hundredths(n) ==
    IF n = 0 THEN Zero
    ELSE IF n > 0 THEN Hundredth(n)
    ELSE Signed(0 - 1, Hundredth(0 - n))

\* the float that reads (2 k + 1)/200
Halfway(k) ==
    IF k \in DOMAIN HalfwayFloats THEN HalfwayFloats[k]
    ELSE Float(2 * k + 1, 200)

\* cons.myround of a float, in hundredths: the decimal reading of the float
\* rounded half-up (away from zero) to two places.  The reading of x is at or
\* above a decimal c exactly when x is at or above the float of c.
RECURSIVE RoundedFrom(_, _)
\* the first k from k on with a below the float that reads (2 k + 1)/200
RoundedFrom(a, k) ==
    IF CmpMag(a, Halfway(k)) < 0 THEN k ELSE RoundedFrom(a, k + 1)

\* a number of hundredths that is not above a: 100 times the first 16 bits
\* of a, cut to an integer
HundredthsBelow(a) ==
    IF a.e < 0 - 7 THEN 0
    ELSE IF a.e <= 15 THEN (100 * (a.hi \div Two[10])) \div Two[15 - a.e]
    ELSE 100 * (a.hi \div Two[10]) * Two[a.e - 15]

MyRoundAbs(a) == RoundedFrom(a, HundredthsBelow(a))

MyRoundFloat(x) == IF x.s = 0 THEN 0 ELSE x.s * MyRoundAbs(Signed(1, x))

(************ xalpha.remain: the lot registry (spec section 4.1) ***********)
\* a lot is <<acquisition date, shares>>; a registry is a sequence of lots

\* remain.copy
RmCopy(lots) == lots

\* remain.buy: a copy with one more lot at the end
RmBuy(lots, share, date) == Append(RmCopy(lots), <<date, share>>)

RECURSIVE SellLoop(_, _, _, _)
\* remain.sell, the walk over the lots, oldest first
SellLoop(lots, share, sold, new) ==
    IF lots = <<>> THEN [sold |-> sold, rem |-> new]
    ELSE LET rec == Head(lots)
         IN  IF share > 0
             THEN IF rec[2] <= share
                  THEN SellLoop(Tail(lots), share - rec[2], Append(sold, rec), new)
                  ELSE SellLoop(Tail(lots), 0,
                                Append(sold, <<rec[1], share>>),
                                Append(new, <<rec[1], rec[2] - share>>))
             ELSE SellLoop(Tail(lots), 0, sold, Append(new, rec))

\* remain.sell: (sold lots, remaining lots), or the InsufficientShares error
RmSell(lots, share, date) ==
    IF share > SumShares(lots)
    THEN [err |-> NotEnoughMsg, sold |-> <<>>, rem |-> <<>>]
    ELSE LET r == SellLoop(RmCopy(lots), share, <<>>, <<>>)
         IN  [err |-> "", sold |-> r.sold, rem |-> r.rem]

\* remain.trans: every lot scaled by the float coef, dates kept
RmTrans(lots, coef, date) ==
    [i \in 1..Len(lots) |->
        <<lots[i][1], MyRoundFloat(Mul(Hundredths(lots[i][2]), coef))>>]

(************ the quote collaborator (spec section 6), no fees *************)
\* aim.shengou(value, date): (settle date, cash, shares)
Shengou(value, in) ==
    [rdate |-> in.rdate,
     cash  |-> 0 - MyRound(value, 100),
     share |-> MyRound(value, NetValue(in.rdate))]

\* the quote for sh hundredths of a share
RedeemQuote(sh, in) ==
    [rdate |-> in.rdate,
     cash  |-> MyRound(sh * NetValue(in.rdate), 100),
     share |-> 0 - sh]

\* aim.shuhui(share, date, rem) for the float share
Shuhui(share, lots, in) == RedeemQuote(MyRoundFloat(share), in)

(************************* trade._addrow ***********************************)
\* the scan started on the last ledger date itself
ScanStartSameDay(lastdate) == lastdate

\* line 163: the scan starts on the day after the last ledger date
ScanStart(lastdate) == lastdate + 1

\* The status table hands out its values as floats: Python floats, or numpy
\* floats (numpy), whose round() scales, rounds to an integer and scales back.
\* Which of the two is decided outside this file.

\* line 182 for 10 * value = d
FenhongMarkOf(d, numpy) ==
    IF numpy THEN RintIsFive(Frac(d)) ELSE RoundsToHalf(d)

\* line 182: round(10 * value - int(10 * value), 1) == 0.5, value in ticks
FenhongMark(value, numpy) ==
    value > 0 /\ FenhongMarkOf(Mul10(Float(value, 10000)), numpy)

\* line 185 for the float d of value, and 10 * d
Round1Of(d, d10, value, numpy) ==
    IF numpy THEN Rint(d10, Floor(d10))
    ELSE NearestTenth(d, TenthBelow(d, value \div 1000))

\* line 185: round(value, 1), value and result in ticks
Round1(value, numpy) ==
    1000 * Round1Of(Float(value, 10000), Mul10(Float(value, 10000)), value, numpy)

\* the cell of the status table that reads value ticks
StatusFloat ==
    [value \in Values \cup ScenarioValues |-> FloatOf(value, 10000)]

\* line 206: the comment cell of the price table that reads comment hundredths
CommentFloat == [comment \in Comments |-> Hundredths(comment)]

\* line 209: -comment - 1
SplitFactors ==
    [comment \in Comments |-> Add(Neg(CommentFloat[comment]), FloatOf(0 - 1, 1))]

\* line 218: comment / netvalue, for the net values of the price table
PerShare ==
    [comment \in {c \in Comments : c > 0} |->
        [netvalue \in {100, 200} |->
            Div(CommentFloat[comment], Float(netvalue, 100))]]

\* lines 182 and 185 on the values of the alphabets: the values that are
\* marked, and what each of them is rounded to
FenhongMarks ==
    [numpy \in BOOLEAN |->
        {value \in Values \cup ScenarioValues : FenhongMark(value, numpy)}]

Round1s ==
    [numpy \in BOOLEAN |->
        [value \in FenhongMarks[numpy] |-> Round1(value, numpy)]]

\* the threshold itself taken as a number of shares
IsShareCountInclusive(value) == value <= RatioThreshold

\* line 191: value stands for the number of shares to redeem
IsShareCount(value) == value < RatioThreshold

\* line 194: value stands for the ratio of the position to redeem
IsRatio(value) == value >= RatioThreshold /\ value < 0

\* line 197: ratio = -value / 0.005
Ratios ==
    [value \in {v \in Values \cup ScenarioValues : IsRatio(v)} |->
        Div(Neg(StatusFloat[value]), Float(RatioUnit, 10000))]

\* The variable rem of _addrow names a list object: an index into the heap,
\* or 0 for the literal [] of line 158.
Lots(h, rem) == IF rem = 0 THEN <<>> ELSE h[rem]

\* the lot appended to the list that rem names, without a copy
BuyLotsInPlace(h, rem, share, date) ==
    IF rem = 0
    THEN [err |-> "", heap |-> Append(h, <<<<date, share>>>>), rem |-> Len(h) + 1]
    ELSE [err |-> "", heap |-> [h EXCEPT ![rem] = Append(@, <<date, share>>)],
          rem |-> rem]

\* lines 158, 189, 221: rem = rm.buy(rem, share, date), a new list object
BuyLots(h, rem, share, date) ==
    [err |-> "", heap |-> Append(h, RmBuy(Lots(h, rem), share, date)),
     rem |-> Len(h) + 1]

\* rm.sell raised, or the list it returned became a new object
SoldLots(h, r, lots) ==
    IF r.err # "" THEN [err |-> r.err, heap |-> h, rem |-> 0]
    ELSE [err |-> "", heap |-> Append(h, lots), rem |-> Len(h) + 1]

\* lines 193, 199: _, rem = ..., the second result of rm.sell is kept
KeepRemaining(h, r) == SoldLots(h, r, r.rem)

\* the two results of rm.sell taken in the wrong order
SellLotsSwapped(h, rem, share, date) ==
    LET r == RmSell(Lots(h, rem), share, date) IN SoldLots(h, r, r.sold)

\* lines 193, 199: _, rem = rm.sell(rem, -dshare, rdate), a new list object
SellLots(h, rem, share, date) ==
    KeepRemaining(h, RmSell(Lots(h, rem), share, date))

\* line 211: rem = rm.trans(rem, -comment, date), a new list object
TransLots(h, rem, comment, date) ==
    [err |-> "",
     heap |-> Append(h, RmTrans(Lots(h, rem), Neg(CommentFloat[comment]), date)),
     rem |-> Len(h) + 1]

\* line 215: rem = rm.copy(rem), a new list object
CopyLots(h, rem) ==
    [err |-> "", heap |-> Append(h, RmCopy(Lots(h, rem))), rem |-> Len(h) + 1]

RECURSIVE SumFloats(_, _)
\* the builtin sum: the floats added one by one to what 0 began
SumFloats(acc, floats) ==
    IF floats = <<>> THEN acc
    ELSE SumFloats(Add(acc, Head(floats)), Tail(floats))

\* lines 196, 214, 218: sum(self.cftable.loc[:, 'share'])
RemainShare(cf) == SumFloats(Zero, [i \in 1..Len(cf) |-> cf[i].sharef])

\* line 209: myround(sh * (-comment - 1)) for the lots, as floats
SplitShares(lots, comment) ==
    [i \in 1..Len(lots) |->
        Hundredths(MyRoundFloat(Mul(Hundredths(lots[i][2]),
                                    SplitFactors[comment])))]

\* line 209: sum([myround(sh * (-comment - 1)) for _, sh in rem])
SplitShare(lots, comment) == SumFloats(Zero, SplitShares(lots, comment))

\* lines 173-177, 201: no instruction executed, rem is still the list of the
\* last snapshot
NoTrade(h, rem, in, label) ==
    [err |-> "", heap |-> h, rem |-> rem, rdate |-> in.date,
     cash |-> 0, share |-> 0, label |-> label]

\* lines 203-204 after a quote q = (rdate, dcash, dshare) and the registry
\* operation r that followed it
TradeResult(r, q, label) ==
    [err |-> r.err, heap |-> r.heap, rem |-> r.rem, rdate |-> q.rdate,
     cash |-> q.cash, share |-> q.share, label |-> label]

\* line 189
Bought(h, rem, q, label) ==
    TradeResult(BuyLots(h, rem, q.share, q.rdate), q, label)

\* lines 193, 199
Sold(h, rem, q, label) ==
    TradeResult(SellLots(h, rem, 0 - q.share, q.rdate), q, label)

\* lines 187-201: the instruction decoded by its value
Trade(cf, h, rem, in, value, label) ==
    IF value > 0
    THEN Bought(h, rem, Shengou(value, in), label)
    ELSE IF IsShareCount(value)
    THEN Sold(h, rem, Shuhui(Neg(StatusFloat[value]), Lots(h, rem), in), label)
    ELSE IF IsRatio(value)
    THEN Sold(h, rem,
              Shuhui(Mul(RemainShare(cf), Ratios[value]), Lots(h, rem), in),
              label)
    ELSE NoTrade(h, rem, in, label)

\* lines 179-204: the instruction of the day.  rem is the index of the list
\* of the last snapshot (line 176).  A day without a row in the status table
\* is a day of value 0: it skips the block and leaves rdate, cash and share
\* as lines 173-177 set them, which is what the else branch of line 201 does.
TradePart(cf, h, rem, in, numpy) ==
    IF in.lock THEN NoTrade(h, rem, in, 0)
    ELSE IF in.value \in FenhongMarks[numpy]
    THEN Trade(cf, h, rem, in, Round1s[numpy][in.value], 1)
    ELSE Trade(cf, h, rem, in, in.value, 0)

\* lines 223-224 after the registry operation r of the corporate action:
\* dcash2 in hundredths and the float dshare2
ActionResult(r, cash, share) ==
    [err |-> r.err, heap |-> r.heap, rem |-> r.rem, cash |-> cash, share |-> share]

\* no corporate action applied: none on the day, or an exception
NoAction(h, rem, msg) ==
    [err |-> msg, heap |-> h, rem |-> rem, cash |-> 0, share |-> Zero]

\* the reinvested dividend counted as a lot and as cash
ReinvestedWithCash(h, rem, dshare2, date) ==
    ActionResult(BuyLots(h, rem, dshare2, date), dshare2, Hundredths(dshare2))

\* line 221: the reinvested dividend becomes a lot of the day
Reinvested(h, rem, dshare2, date) ==
    ActionResult(BuyLots(h, rem, dshare2, date), 0, Hundredths(dshare2))

\* lines 205-226: the corporate action of the day, applied to the registry
\* the instruction of the day left
ActionPart(cf, h, rem, in, label) ==
    IF ~in.special THEN NoAction(h, rem, "")
    ELSE IF ~in.isfloat THEN NoAction(h, rem, BadCommentMsg)
    ELSE IF in.comment < 0
    THEN ActionResult(TransLots(h, rem, in.comment, in.date),
                      0, SplitShare(Lots(h, rem), in.comment))
    ELSE IF in.comment > 0 /\ label = 0
    THEN ActionResult(CopyLots(h, rem),
                      MyRoundFloat(Mul(RemainShare(cf), CommentFloat[in.comment])),
                      Zero)
    ELSE IF in.comment > 0 /\ label = 1
    THEN Reinvested(h, rem,
                    MyRoundFloat(Mul(RemainShare(cf),
                                     PerShare[in.comment][NetValue(in.date)])),
                    in.date)
    ELSE NoAction(h, rem, UnboundMsg)

\* line 228: the row [rdate, cash, share].  The share cell is a float that
\* the additions of lines 204 and 224 and the sum of line 209 may leave a few
\* units in the last place off the hundredths it reads as; the row keeps the
\* float (sharef) beside its reading to two places (share).  The cash cell
\* is read to two places wherever this file reads it.
Row(rdate, cash, share) ==
    [date |-> rdate, cash |-> cash, share |-> MyRoundFloat(share),
     sharef |-> share]

\* the snapshot row keyed by the instruction date instead of the settle date
AppendRowsByDate(cf, rt, h, rdate, date, cash, share, rem) ==
    [msg |-> "",
     cf |-> Append(cf, Row(rdate, cash, share)),
     rt |-> Append(rt, [date |-> date, rem |-> rem]),
     heap |-> h]

\* lines 228-230: one more row in each table
AppendRows(cf, rt, h, rdate, date, cash, share, rem) ==
    [msg |-> "",
     cf |-> Append(cf, Row(rdate, cash, share)),
     rt |-> Append(rt, [date |-> rdate, rem |-> rem]),
     heap |-> h]

\* an exception leaves _addrow: the tables are as they were
Raise(msg, cf, rt, h) == [msg |-> msg, cf |-> cf, rt |-> rt, heap |-> h]

\* lines 158, 228-230: the first lot b and the first row
FirstRow(cf, rt, in, q, b) ==
    AppendRows(cf, rt, b.heap, q.rdate, in.date, q.cash,
               Hundredths(q.share), b.rem)

\* lines 157-158: the first purchase, quoted as q
FirstBuy(cf, rt, h, in, q) ==
    FirstRow(cf, rt, in, q, BuyLots(h, 0, q.share, q.rdate))

\* the first row quoted as a purchase whatever the sign of the value
AddRowFirstAnySign(cf, rt, h, in) ==
    IF ~in.found THEN Raise(EndOfInputMsg, cf, rt, h)
    ELSE FirstBuy(cf, rt, h, in, Shengou(in.value, in))

\* lines 148-160: the first row
AddRowFirst(cf, rt, h, in) ==
    IF ~in.found THEN Raise(EndOfInputMsg, cf, rt, h)
    ELSE IF in.value > 0 THEN FirstBuy(cf, rt, h, in, Shengou(in.value, in))
    ELSE Raise(PrematureSellMsg, cf, rt, h)

\* the instruction's part of the day kept in the ledger when the corporate
\* action of the day raises
WithActionPartial(cf, rt, h, in, tr, ac) ==
    IF ac.err # ""
    THEN Raise(ac.err,
               Append(cf, Row(tr.rdate, tr.cash, Hundredths(tr.share))),
               rt, h)
    ELSE AppendRows(cf, rt, ac.heap, tr.rdate, in.date,
                    tr.cash + ac.cash,
                    Add(Hundredths(tr.share), ac.share), ac.rem)

\* lines 203-204, 223-230: the row of a day whose instruction gave tr and
\* whose corporate action gave ac
WithAction(cf, rt, h, in, tr, ac) ==
    IF ac.err # "" THEN Raise(ac.err, cf, rt, h)
    ELSE AppendRows(cf, rt, ac.heap, tr.rdate, in.date,
                    tr.cash + ac.cash,
                    Add(Hundredths(tr.share), ac.share), ac.rem)

\* lines 205-230 after the instruction of the day gave tr
WithTrade(cf, rt, h, in, tr) ==
    IF tr.err # "" THEN Raise(tr.err, cf, rt, h)
    ELSE WithAction(cf, rt, h, in, tr,
                    ActionPart(cf, tr.heap, tr.rem, in, tr.label))

\* lines 161-230: a later row
AddRowNext(cf, rt, h, in, numpy) ==
    IF ~in.found THEN Raise(EndOfInputMsg, cf, rt, h)
    ELSE WithTrade(cf, rt, h, in, TradePart(cf, h, rt[Len(rt)].rem, in, numpy))

\* trade._addrow: the tables with one more row, or the exception raised
AddRow(cf, rt, h, in, numpy) ==
    IF Len(cf) = 0 THEN AddRowFirst(cf, rt, h, in)
    ELSE AddRowNext(cf, rt, h, in, numpy)

(***************** what one call of _addrow reads **************************)
\* The status table, the price table and the date lists are read-only; a
\* call reads the days from the scan start up to the day it stops on, and no
\* later call reads them again, so each call draws the days it reads.
\*   found   the call found a day to stop on
\*   date    that day, every day before it in the scan being quiet
\*   value   the instruction read for that day: the first row of the day in
\*           the status table (0 when the day has no row)
\*   special/isfloat/comment   date in aim.specialdate, and its comment
\*   lock    date in aim.zhesuandate
\*   rdate   date of the price row the quote uses: the first on or after date
NoDay ==
    [found |-> FALSE, date |-> 0, value |-> 0, special |-> FALSE,
     isfloat |-> TRUE, comment |-> 0, lock |-> FALSE, rdate |-> 0]

\* the last day that has a row in the status table or in the price table
LastData == Yesterday + After

SettleDates(d) ==
    {r \in d..(d + MaxSettle) : r <= LastData}

\* lines 149-155: the first nonzero instruction, if any, on whatever day it
\* is: the first call never reads yesterdayobj().  Its day may be a special
\* date or a lock date: the first call reads neither list.
FirstInputs ==
    {NoDay} \cup
    {in \in [found : {TRUE}, date : 1..LastData,
             value : Values \ {0}, special : BOOLEAN, isfloat : BOOLEAN,
             comment : Comments, lock : BOOLEAN, rdate : 1..LastData] :
        /\ in.rdate \in SettleDates(in.date)
        /\ in.special => in.rdate = in.date
        /\ ~in.special => (in.isfloat /\ in.comment = 0)
        /\ ~in.isfloat => in.comment = 0}

\* lines 164-171: the days the scan can stop on.  Line 170 tests a day against
\* yesterdayobj() after the step to it, so the day the scan starts on is
\* never tested, and a later day is reached only if it is not after Yesterday.
ScanDays(lastdate) ==
    {d \in ScanStart(lastdate)..LastData :
        d = ScanStart(lastdate) \/ d <= Yesterday}

\* lines 162-172: the first day from the scan start that is a special date or
\* has a nonzero row in the status table, if the scan reaches one.  Line 168
\* tests any() of the rows of the day and line 181 reads the first of them:
\* the value read is 0 on a special date without a row, and on a day whose
\* first row is 0 and a later row is not.  A special date has a row in the
\* price table (line 206 reads it), so a quote asked on it uses that row; on
\* other days the quote may settle up to MaxSettle days later, never earlier
\* than asked.
NextInputs(lastdate) ==
    {NoDay} \cup
    {in \in [found : {TRUE}, date : ScanDays(lastdate),
             value : Values, special : BOOLEAN, isfloat : BOOLEAN,
             comment : Comments, lock : BOOLEAN, rdate : 1..LastData] :
        /\ in.rdate \in SettleDates(in.date)
        /\ in.special => in.rdate = in.date
        /\ ~in.special => (in.isfloat /\ in.comment = 0)
        /\ ~in.isfloat => in.comment = 0}

Inputs(cf) ==
    IF Len(cf) = 0 THEN FirstInputs ELSE NextInputs(cf[Len(cf)].date)

(******************** bottleneck, turnoverrate *****************************)
\* minus the sum of the whole cash column
BottleneckFinal(cf) ==
    IF Len(cf) = 0 THEN 0 ELSE MyRound(0 - SumCash(cf), 1)

\* line 47: [-sum(cftable.iloc[:i].cash) for i in range(1, len(cftable) + 1)]
InputL(cf) == {0 - SumCash(SubSeq(cf, 1, i)) : i \in 1..Len(cf)}

\* lines 38-48: bottleneck, in hundredths
Bottleneck(cf) ==
    IF Len(cf) = 0 THEN 0 ELSE MyRound(Max(InputL(cf)), 1)

\* a rate num/den returned, the division of num by den left undone
Rate(num, den) == [err |-> "", nan |-> FALSE, num |-> num, den |-> den]

\* lines 64-66: 0 when no day has elapsed, else turnover * 365 / days for
\* turnover = num/den
Annualized(cf, end, num, den) ==
    IF end - cf[1].date <= 0 THEN Rate(0, 1)
    ELSE Rate(num * 365, den * (end - cf[1].date))

\* line 63, tradeamount / bottleneck / 2., then lines 64-66.  The division
\* comes before the test on the days: by a zero bottleneck it raises when the
\* cash column gives Python floats, and gives inf or nan when it gives numpy
\* floats (which the cash column gives is decided outside this file).
Turnover(cf, end, numpy, tradeamount, bn) ==
    IF bn # 0 THEN Annualized(cf, end, tradeamount, bn * 2)
    ELSE IF ~numpy
    THEN [err |-> ZeroDivisionMsg, nan |-> FALSE, num |-> 0, den |-> 1]
    ELSE IF end - cf[1].date <= 0 THEN Rate(0, 1)
    ELSE [err |-> "", nan |-> TRUE, num |-> 0, den |-> 1]

\* lines 51-66: turnoverrate(cftable, end)
TurnoverRate(cf, end, numpy) ==
    IF Len(cf) = 0 THEN Rate(0, 1)
    ELSE Turnover(cf, end, numpy, SumAbsCash(cf), Bottleneck(cf))

(************************* trade.__init__, _arrange ************************)
\* nothing reported yet
NoReport ==
    [end |-> 0, bottleneck |-> 0, err |-> "", nan |-> FALSE, num |-> 0, den |-> 1]

\* lines 119-125: two empty tables, then _arrange
Init ==
    /\ cftable = <<>>
    /\ remtable = <<>>
    /\ heap = <<>>
    /\ pc = "run"
    /\ err = ""
    /\ step = NoDay
    /\ status = <<>>
    /\ report = NoReport

\* an except clause that leaves the loop on every exception
CaughtAll(msg) == "done"

\* an except clause that swallows every exception and loops on
CaughtNone(msg) == "run"

\* lines 131-135: the except clause of _arrange
Caught(msg) == IF msg = EndOfInputMsg THEN "done" ELSE "error"

\* the call returned (r.msg empty) or raised, and the except clause ran; the
\* tables are what the call left
Outcome(r, in) ==
    /\ step' = in
    /\ cftable' = r.cf
    /\ remtable' = r.rt
    /\ heap' = r.heap
    /\ err' = r.msg
    /\ pc' = IF r.msg = "" THEN "run" ELSE Caught(r.msg)
    /\ UNCHANGED <<status, report>>

\* one turn of the loop of _arrange: a call of _addrow and its except clause
Arrange ==
    /\ pc = "run"
    /\ \E in \in Inputs(cftable), numpy \in BOOLEAN :
         Outcome(AddRow(cftable, remtable, heap, in, numpy), in)

Next == Arrange

Spec == Init /\ [][Next]_vars

\* the loop of _arrange is a while (1) of one thread: it takes its next turn
FairSpec == Spec /\ WF_vars(Next)

(******************** reports on a finished ledger *************************)
\* what bottleneck gave, and what turnoverrate gave (t) for the date end
MakeReport(end, bn, t) ==
    [end |-> end, bottleneck |-> bn, err |-> t.err, nan |-> t.nan,
     num |-> t.num, den |-> t.den]

\* bottleneck(cftable) and turnoverrate(cftable, end) called on the ledger
Report ==
    /\ pc = "done"
    /\ \E end \in 1..LastDay, numpy \in BOOLEAN :
         report' = MakeReport(end, Bottleneck(cftable),
                              TurnoverRate(cftable, end, numpy))
    /\ pc' = "reported"
    /\ UNCHANGED <<cftable, remtable, heap, err, step, status>>

(******************** ledgers drawn from a bounded set *********************)
\* cash entries in hundredths: 100.00, 50.00 and 0.25 paid in, nothing, 30.00
\* and 150.00 paid out
Cashes == {0 - 10000, 0 - 5000, 0 - 25, 0, 3000, 15000}

\* ledgers of up to MaxRows entries on strictly increasing days; the first
\* entry is a purchase, which pays in (or, for an amount under half a
\* hundredth, pays 0.00)
LedgerSet ==
    UNION {{cf \in [1..n -> [date : 1..LastDay, cash : Cashes, share : {0},
                             sharef : {Zero}]] :
              /\ \A i \in 1..(n - 1) : cf[i].date < cf[i + 1].date
              /\ n > 0 => cf[1].cash <= 0} : n \in 0..MaxRows}

InitLedgers ==
    /\ cftable \in LedgerSet
    /\ remtable = <<>>
    /\ heap = <<>>
    /\ pc = "done"
    /\ err = EndOfInputMsg
    /\ step = NoDay
    /\ status = <<>>
    /\ report = NoReport

Ledgers == InitLedgers /\ [][Report]_vars

(******************** status tables fixed in advance ***********************)
\* the row of the status table read as the day of a call: no special date,
\* no lock date, a price row on every day
DayOf(row) ==
    [found |-> TRUE, date |-> row.date, value |-> row.value, special |-> FALSE,
     isfloat |-> TRUE, comment |-> 0, lock |-> FALSE, rdate |-> row.date]

\* the rows that carry an instruction, on or after the day from; the tables
\* fixed in advance end on LastDay, which is the yesterdayobj() of their runs
NonzeroFrom(st, from) ==
    {i \in 1..Len(st) : st[i].value # 0 /\ st[i].date >= from /\ st[i].date <= LastDay}

\* the first of the rows rows, if any
FirstRowOf(st, rows) ==
    IF rows = {} THEN NoDay ELSE DayOf(st[0 - Max({0 - i : i \in rows})])

\* lines 149-155 and 162-172 on the status table st
StatusInputs(st, cf) ==
    IF Len(cf) = 0 THEN {FirstRowOf(st, NonzeroFrom(st, 1))}
    ELSE {FirstRowOf(st, NonzeroFrom(st, ScanStart(cf[Len(cf)].date)))}

\* a purchase of 1000.00 or 500.00, then a redemption of 100%, of 50%, of
\* 500.00 shares, or nothing (values in ticks)
StatusTables ==
    {st \in [1..2 -> [date : 1..LastDay,
                      value : ScenarioValues]] :
        /\ st[1].date < st[2].date
        /\ st[1].value > 0
        /\ st[2].value <= 0}

InitScenario ==
    /\ status \in StatusTables
    /\ cftable = <<>>
    /\ remtable = <<>>
    /\ heap = <<>>
    /\ pc = "run"
    /\ err = ""
    /\ step = NoDay
    /\ report = NoReport

\* one turn of the loop of _arrange on the status table
ArrangeStatus ==
    /\ pc = "run"
    /\ \E in \in StatusInputs(status, cftable), numpy \in BOOLEAN :
         Outcome(AddRow(cftable, remtable, heap, in, numpy), in)

NextScenario == ArrangeStatus \/ Report

Scenario == InitScenario /\ [][NextScenario]_vars

(***************************************************************************)
(* Properties of the replay                                                *)
(***************************************************************************)
RECURSIVE Positive(_)
\* the lots that hold shares
Positive(lots) ==
    IF lots = <<>> THEN <<>>
    ELSE IF lots[1][2] > 0 THEN <<lots[1]>> \o Positive(Tail(lots))
    ELSE Positive(Tail(lots))

Prefix(seq, i) == SubSeq(seq, 1, i)

RECURSIVE SumShare(_)
\* the share column of the rows cf, each cell read to two places, summed
SumShare(cf) ==
    IF cf = <<>> THEN 0 ELSE cf[1].share + SumShare(Tail(cf))

\* n is num/den to the nearest integer, a tie going either way (den > 0)
ToNearest(n, num, den) ==
    2 * (n * den - num) <= den /\ 2 * (num - n * den) <= den

NRows == Len(cftable)

\* the last call of _addrow appended a row after the first one
Stepped == pc = "run" /\ step.found /\ NRows >= 2
\* ... and executed the instruction of its day / applied a corporate action
Traded == Stepped /\ ~step.lock /\ step.value # 0
Acted == Stepped /\ step.special

\* the registry before the last call, after its instruction, and after the call
PrevLots == heap[remtable[NRows - 1].rem]
LastLots == heap[remtable[NRows].rem]
TradeLots ==
    IF Traded THEN (IF Acted THEN heap[Len(heap) - 1] ELSE heap[Len(heap)])
    ELSE PrevLots

\* C1: after every replay step the ledger and the snapshot sequence have the
\* same length and the i-th ledger entry and the i-th snapshot carry the same
\* date.
C1_Aligned ==
    /\ Len(cftable) = Len(remtable)
    /\ \A i \in 1..Len(cftable) : cftable[i].date = remtable[i].date

\* a step whose quote settled later than the instruction date
C1_Witness ==
    /\ Stepped
    /\ Traded
    /\ step.rdate > step.date
    /\ remtable[NRows].date = step.rdate

\* C2: the dates of the ledger entries are strictly increasing after every
\* replay step, so no date appears twice, also when the settle date differs
\* from the instruction date.
C2_StrictlyIncreasing ==
    \A i \in 1..(Len(cftable) - 1) : cftable[i].date < cftable[i + 1].date

\* a second entry dated by a quote that settled after the instruction date,
\* itself later than the first entry
C2_Witness ==
    /\ NRows = 2
    /\ Traded
    /\ cftable[1].date < step.date
    /\ step.date < step.rdate
    /\ cftable[2].date = step.rdate

\* C3: for every prefix of the ledger, the sum of the lot shares in the
\* snapshot of the last entry of the prefix equals the sum of the shares
\* deltas of the entries of the prefix.
C3_PrefixConsistent ==
    \A i \in 1..Len(remtable) :
        SumShares(heap[remtable[i].rem]) = SumShare(Prefix(cftable, i))

\* what a FIFO sale of k shares leaves of lot i: the shares not among the
\* first k of the registry
FifoLeft(lots, i, k) ==
    LET before == SumShares(Prefix(lots, i - 1))
        taken  == IF k <= before THEN 0
                  ELSE IF k - before >= lots[i][2] THEN lots[i][2]
                  ELSE k - before
    IN  <<lots[i][1], lots[i][2] - taken>>

\* C4: a sell of k shares removes shares from the lots oldest first, fully
\* consuming each older lot before touching a newer one and splitting the lot
\* in which k runs out.
C4_Fifo ==
    (Traded /\ step.value < 0) =>
        LET k == 0 - SumShares(TradeLots) + SumShares(PrevLots)
        IN  /\ k >= 0
            /\ Positive(TradeLots) =
                 Positive([i \in 1..Len(PrevLots) |-> FifoLeft(PrevLots, i, k)])
            /\ \A i \in 1..(Len(PrevLots) - 1) :
                 PrevLots[i][1] <= PrevLots[i + 1][1]

\* lots {day 1: 1.00} and {day 2: 0.50}, a sell of 1.20 leaves {day 2: 0.30}
C4_Witness ==
    /\ Traded
    /\ step.value = 0 - 12000
    /\ PrevLots = << <<1, 100>>, <<2, 50>> >>
    /\ LastLots = << <<2, 30>> >>

\* the ledger's share balance before the last call, and the shares its
\* instruction took out of the registry
Balance == SumShare(Prefix(cftable, NRows - 1))
Redeemed == SumShares(PrevLots) - SumShares(TradeLots)
RatioStep == Traded /\ step.value >= RatioThreshold /\ step.value < 0

\* C5: for a non-empty holding the value -0.005 redeems 100% of the current
\* share balance and leaves the lot registry empty, and the value -0.0025
\* redeems 50% of the current share balance: redeemed shares = current total
\* x (-v / 0.005), to the nearest of the hundredths of a share that the
\* ledger keeps.
C5_RatioBoundary ==
    (RatioStep /\ SumShares(PrevLots) > 0) =>
        /\ ToNearest(Redeemed, Balance * (0 - step.value), RatioUnit)
        /\ step.value = 0 - 50 => (Redeemed = Balance /\ Positive(TradeLots) = <<>>)
        /\ step.value = 0 - 25 => ToNearest(Redeemed, Balance, 2)

SplitStep == Acted /\ step.comment < 0

\* C6: a split with ratio r multiplies every lot's shares by r (to the
\* hundredth of a share), keeps the number of lots and every lot's date, and so
\* multiplies the total by r (ratio 2 doubles it); the ledger entry of the split
\* day records the incremental shares with zero cash.
C6_Split ==
    SplitStep =>
        /\ Len(LastLots) = Len(TradeLots)
        /\ \A i \in 1..Len(TradeLots) :
             /\ LastLots[i][1] = TradeLots[i][1]
             /\ ToNearest(LastLots[i][2], TradeLots[i][2] * (0 - step.comment), 100)
        /\ step.comment = 0 - 200 => SumShares(LastLots) = 2 * SumShares(TradeLots)
        /\ ~Traded => /\ cftable[NRows].cash = 0
                      /\ cftable[NRows].share = SumShares(LastLots) - SumShares(TradeLots)

\* C7: a replay step never changes a recorded snapshot: the lots of snapshot i
\* after a later step are the lots it held right after step i.
C7_HistoryImmutable ==
    [][\A i \in 1..Len(remtable) :
          /\ i <= Len(remtable')
          /\ remtable'[i] = remtable[i]
          /\ heap'[remtable[i].rem] = heap[remtable[i].rem]]_vars

\* two snapshots naming the same list (a lock day recorded without any
\* operation), followed by a purchase on the registry taken from the latest
C7_Witness ==
    /\ NRows = 3
    /\ remtable[1].rem = remtable[2].rem
    /\ remtable[3].rem # remtable[2].rem
    /\ Len(heap[remtable[3].rem]) = Len(heap[remtable[2].rem]) + 1

\* C8: in every snapshot every lot has a non-negative share count, so the
\* holding's cumulative share balance is never negative.
C8_NeverNegative ==
    /\ \A i \in 1..Len(remtable) :
         \A j \in 1..Len(heap[remtable[i].rem]) : heap[remtable[i].rem][j][2] >= 0
    /\ \A i \in 1..Len(cftable) : SumShare(Prefix(cftable, i)) >= 0

\* the registry holds no shares when a call of _addrow starts
RegistryEmpty ==
    IF Len(remtable) = 0 THEN TRUE
    ELSE SumShares(heap[remtable[Len(remtable)].rem]) = 0

\* the call of this step executes a sell instruction
SellCall == pc = "run" /\ step'.found /\ ~step'.lock /\ step'.value < 0

Aborted == pc' = "error" /\ cftable' = cftable /\ remtable' = remtable

\* C9 as stated: a sell instruction processed while the registry is empty is a
\* fatal error that aborts the replay and records nothing.
C9_AsStated ==
    [][(SellCall /\ RegistryEmpty) => Aborted]_vars

\* the shares the instruction of the call asks the registry for
Requested ==
    IF step'.value < RatioThreshold THEN MyRound(0 - step'.value, 100)
    ELSE MyRoundFloat(Mul(RemainShare(cftable), Ratios[step'.value]))

\* the corporate action of the day of the call raises (lines 223-226)
ActionRaises == step'.special /\ (~step'.isfloat \/ step'.comment = 0)

\* the call appended a ledger entry and a snapshot, and the replay goes on
Recorded ==
    /\ pc' = "run"
    /\ Len(cftable') = Len(cftable) + 1
    /\ Len(remtable') = Len(remtable) + 1

\* C9 amended: a sell that is the first nonzero instruction, and a redemption
\* by share count processed while the registry holds no shares, is a fatal
\* error that aborts the replay and records nothing; a later redemption by
\* ratio processed while the registry holds no shares aborts the replay only
\* if the ledger balance x ratio rounds to more than 0 shares or the corporate
\* action of the same day raises, and is otherwise recorded.
C9_SellBeforeBuyFatal ==
    [][/\ (SellCall /\ RegistryEmpty
            /\ (Len(cftable) = 0 \/ step'.value < RatioThreshold)) => Aborted
       /\ (SellCall /\ RegistryEmpty /\ Len(cftable) > 0
            /\ step'.value >= RatioThreshold) =>
              IF Requested > 0 \/ ActionRaises THEN Aborted ELSE Recorded]_vars

\* a redemption by share count refused on a registry emptied by a redemption
C9_Witness ==
    /\ pc = "error"
    /\ err = NotEnoughMsg
    /\ NRows >= 2
    /\ SumShares(heap[remtable[NRows].rem]) = 0
    /\ step.value < RatioThreshold

\* C10: a redemption that requests more shares than the registry holds fails
\* with InsufficientShares: the error leaves the replay driver, the replay is
\* aborted and no ledger entry is recorded for the instruction.
C10_InsufficientShares ==
    [][(SellCall /\ Len(cftable) > 0
         /\ Requested > SumShares(heap[remtable[Len(remtable)].rem]))
          => (Aborted /\ err' = NotEnoughMsg)]_vars

\* 1.20 shares asked of a registry that holds fewer, but some
C10_Witness ==
    /\ pc = "error"
    /\ err = NotEnoughMsg
    /\ step.value = 0 - 12000
    /\ SumShares(heap[remtable[NRows].rem]) > 0
    /\ SumShares(heap[remtable[NRows].rem]) < 120

\* C11: the replay driver eventually stops, and it stops by a normal return
\* exactly when the end of the input was reached: the end-of-input exception
\* is caught inside the driver (pc = "done"), every other exception leaves it
\* (pc = "error").
C11_NormalTermination ==
    /\ <>(pc # "run")
    /\ [](pc = "done" <=> err = EndOfInputMsg)
    /\ [](pc = "error" => err \notin {"", EndOfInputMsg})

\* the scan passed Yesterday after two recorded days
C11_Witness ==
    /\ pc = "done"
    /\ err = EndOfInputMsg
    /\ NRows = 2
    /\ ~step.found

\* the call of this step visits a special date whose comment is neither a
\* split ratio nor a dividend amount
BadActionCall ==
    /\ pc = "run"
    /\ step'.found
    /\ step'.special
    /\ (~step'.isfloat \/ step'.comment = 0)

\* C12: a corporate-action value on a visited day that is neither a split
\* (negative ratio) nor a dividend (positive amount) is a fatal error that
\* aborts the replay; the day is not recorded as a ledger entry.
C12_UnrecognizedFatal ==
    [][BadActionCall => Aborted]_vars

\* the call of this step takes the first purchase, on a special date whose
\* comment is a dividend amount
FirstDayDividendCall ==
    /\ pc = "run"
    /\ Len(cftable) = 0
    /\ step'.found
    /\ step'.value > 0
    /\ step'.special
    /\ step'.isfloat
    /\ step'.comment > 0

\* C19: when the first purchase falls on a date that also carries a dividend,
\* the replay raises the unrecognized-corporate-action error and records no
\* ledger entry.
C19_FirstDayDividendRaises ==
    [][FirstDayDividendCall => (Aborted /\ err' = BadCommentMsg)]_vars

\* the share delta that the instruction of the last call left in the ledger:
\* the entry of the day less the increment of a split of the same day
TradeShare ==
    cftable[NRows].share
      - (IF SplitStep THEN MyRoundFloat(SplitShare(TradeLots, step.comment))
         ELSE 0)

\* C16 as stated: a value v <= -0.005 is redeemed by share count (shares = -v)
\* and a value strictly between -0.005 and 0 by ratio (shares = current total
\* x (-v / 0.005), to the nearest hundredth).
C16_AsStated ==
    (Traded /\ step.value < 0) =>
        /\ step.value <= 0 - 50 => TradeShare = 0 - MyRound(0 - step.value, 100)
        /\ step.value > 0 - 50 =>
             ToNearest(0 - TradeShare, Balance * (0 - step.value), RatioUnit)

\* C16 amended: a value v < -0.005 is redeemed by share count (shares = -v),
\* a value with -0.005 <= v < 0 by ratio (shares = the ledger's share balance
\* x (-v / 0.005), to the nearest hundredth), so -0.005 itself redeems 100%;
\* every negative value falls in exactly one of the two modes.
C16_Decoding ==
    (Traded /\ step.value < 0) =>
        /\ (step.value < 0 - 50) # (step.value >= 0 - 50)
        /\ step.value < 0 - 50 => TradeShare = 0 - MyRound(0 - step.value, 100)
        /\ step.value >= 0 - 50 =>
             ToNearest(0 - TradeShare, Balance * (0 - step.value), RatioUnit)
        /\ step.value = 0 - 50 => TradeShare = 0 - Balance

\* the value -0.005 on a balance of 1.00: all of it redeemed, not 0.01 shares
C16_Witness ==
    /\ Traded
    /\ step.value = 0 - 50
    /\ Balance = 100
    /\ cftable[NRows].share = 0 - 100

\* the last call recorded a row for a lock date
LockRow == pc = "run" /\ step.found /\ step.lock /\ NRows >= 1

\* the ledger entry and the registry that a corporate action alone gives
ActionOnly ==
    /\ NRows >= 2
    /\ cftable[NRows].date = step.date
    /\ IF step.comment < 0
       THEN /\ cftable[NRows].cash = 0
            /\ cftable[NRows].sharef = SplitShare(PrevLots, step.comment)
            /\ LastLots = RmTrans(PrevLots, Neg(CommentFloat[step.comment]),
                                  step.date)
       ELSE /\ ToNearest(cftable[NRows].cash, Balance * step.comment, 100)
            /\ cftable[NRows].share = 0
            /\ LastLots = PrevLots

\* C17: an instruction on a lock date is never executed: a lock date that
\* carries a corporate action gets a ledger entry with exactly the deltas of
\* the action and a registry that reflects only the action; a lock date that
\* carries none is not visited, and no ledger entry and no snapshot is
\* recorded for it.
C17_LockDate ==
    LockRow => (step.special /\ ActionOnly)

\* the last call applied a dividend
DividendStep == Acted /\ step.comment > 0

\* the day of the last call was tagged as a reinvestment day (lines 182-185),
\* the status table handing out numpy floats or Python floats
Tagged(numpy) == ~step.lock /\ step.value \in FenhongMarks[numpy]

\* what the quote of the instruction of the last call contributed to the entry
QuoteOfStep(numpy) ==
    LET v == IF Tagged(numpy) THEN Round1s[numpy][step.value] ELSE step.value
    IN  IF ~Traded THEN [rdate |-> step.date, cash |-> 0, share |-> 0]
        ELSE IF v > 0 THEN Shengou(v, step)
        ELSE IF v < RatioThreshold THEN Shuhui(Neg(StatusFloat[v]), PrevLots, step)
        ELSE Shuhui(Mul(RemainShare(Prefix(cftable, NRows - 1)), Ratios[v]),
                    PrevLots, step)

\* what the corporate action of the last call contributed to the entry
ActionCash(numpy) == cftable[NRows].cash - QuoteOfStep(numpy).cash
ActionShare(numpy) == cftable[NRows].share - QuoteOfStep(numpy).share

\* n hundredths of a share are the dividend of the last call converted to
\* shares at the price of the day, to the nearest hundredth
DividendShares(n) == ToNearest(n, Balance * step.comment, NetValue(step.date))

\* the first call recorded the first purchase on a dividend day: no share was
\* held before it and no tag is read (lines 148-160)
FirstDayDividend ==
    pc = "run" /\ step.found /\ NRows = 1 /\ step.special /\ step.comment > 0

\* the dividend of the last call was counted once, as cash or as shares
DividendOnce(numpy) ==
    /\ ActionCash(numpy) = 0 \/ ActionShare(numpy) = 0
    /\ ~Tagged(numpy) =>
          /\ ToNearest(ActionCash(numpy), Balance * step.comment, 100)
          /\ ActionShare(numpy) = 0
          /\ LastLots = TradeLots
    /\ Tagged(numpy) =>
          /\ ActionCash(numpy) = 0
          /\ DividendShares(ActionShare(numpy))
          /\ LastLots = Append(TradeLots, <<step.date, ActionShare(numpy)>>)

\* C18: a dividend is never counted as both cash and shares: on a day not
\* tagged as reinvestment it adds cash = share balance x amount per share (to
\* the nearest hundredth), adds no shares and leaves the lots as they were;
\* on a tagged day it adds no cash and appends one lot, dated that day, of the
\* dividend converted to shares at the price of the day (to the nearest
\* hundredth).  On the day of the first purchase the balance is 0 and the
\* dividend adds nothing.
C18_Dividend ==
    /\ DividendStep => \E numpy \in BOOLEAN : DividendOnce(numpy)
    /\ FirstDayDividend =>
        /\ cftable[1].cash = Shengou(step.value, step).cash
        /\ cftable[1].share = Shengou(step.value, step).share
        /\ heap[remtable[1].rem] = <<<<step.rdate, cftable[1].share>>>>

\* a dividend reinvested as a lot that holds shares
C18_Witness ==
    /\ DividendStep
    /\ \A numpy \in BOOLEAN : Tagged(numpy)
    /\ LastLots[Len(LastLots)][1] = step.date
    /\ LastLots[Len(LastLots)][2] > 0
    /\ DividendShares(LastLots[Len(LastLots)][2])
    /\ \A numpy \in BOOLEAN : cftable[NRows].cash = QuoteOfStep(numpy).cash

\* C20: replay steps are atomic with respect to errors: a step that raises
\* (end of input, premature sell, insufficient shares, unrecognized corporate
\* action) leaves the ledger, the snapshot sequence and the recorded lot lists
\* exactly as they were, and no step gives one table a row without the other.
C20_Atomic ==
    [][/\ Len(cftable') - Len(cftable) = Len(remtable') - Len(remtable)
       /\ (pc = "run" /\ err' # "") =>
            /\ cftable' = cftable
            /\ remtable' = remtable
            /\ heap' = heap]_vars

\* a purchase quoted on a day whose corporate action then failed: nothing of
\* the day is in the tables
C20_Witness ==
    /\ pc = "error"
    /\ err = BadCommentMsg
    /\ step.value > 0
    /\ ~step.lock
    /\ NRows = 1
    /\ Len(remtable) = 1
    /\ Len(heap) = 1

\* the cash column of the ledger, and minus its sum over the first i entries
CashColumn == [i \in 1..Len(cftable) |-> cftable[i].cash]
PaidIn(i) == 0 - SumCash(Prefix(cftable, i))

\* C13: bottleneck(ledger) is the maximum, over the non-empty prefixes of the
\* ledger in date order, of minus the cumulative sum of cash, and 0 for an
\* empty ledger; cash entries [-100, -50, +30] give 150.
C13_Bottleneck ==
    pc = "reported" =>
        /\ Len(cftable) = 0 => report.bottleneck = 0
        /\ Len(cftable) > 0 =>
             /\ \E i \in 1..Len(cftable) : report.bottleneck = PaidIn(i)
             /\ \A i \in 1..Len(cftable) : report.bottleneck >= PaidIn(i)
        /\ CashColumn = <<0 - 10000, 0 - 5000, 3000>> => report.bottleneck = 15000

\* the ledger [-100, -50, +30] reported with bottleneck 150
C13_Witness ==
    /\ pc = "reported"
    /\ CashColumn = <<0 - 10000, 0 - 5000, 3000>>
    /\ report.bottleneck = 15000

RECURSIVE Gcd(_, _)
Gcd(a, b) == IF b = 0 THEN a ELSE Gcd(b, a % b)

\* the fraction n/d (n >= 0, d > 0) in lowest terms
Reduced(n, d) == <<n \div Gcd(n, d), d \div Gcd(n, d)>>

\* the days from the first entry of the ledger to the date of the report
ElapsedDays == report.end - cftable[1].date

\* C14: turnoverRate(ledger, asOfDate) returns 0, without raising, for every
\* ledger that is empty or whose first entry is not earlier than asOfDate; for
\* every other ledger it is sum(|cash|) / (2 x bottleneck) x 365 / elapsed days.
C14_TurnoverRate ==
    pc = "reported" =>
        IF Len(cftable) = 0 \/ ElapsedDays <= 0
        THEN report.err = "" /\ ~report.nan /\ report.num = 0
        ELSE report.bottleneck # 0 =>
               /\ report.err = "" /\ ~report.nan
               /\ Reduced(report.num, report.den)
                    = Reduced(SumAbsCash(cftable) * 365,
                              2 * report.bottleneck * ElapsedDays)

\* the status table of the scenario: 1000.00 bought on day 1, 100% redeemed on
\* day 5 (the price table reads 1.00 on both days)
ScenarioTable ==
    <<[date |-> 1, value |-> 10000000], [date |-> 5, value |-> 0 - 50]>>

\* the scenario replayed and reported as of day 5
ScenarioReported == status = ScenarioTable /\ pc = "reported" /\ report.end = 5

\* the ledger, the registry and the bottleneck of the scenario
ScenarioLedger ==
    /\ cftable = <<Row(1, 0 - 100000, Hundredths(100000)),
                   Row(5, 100000, Hundredths(0 - 100000))>>
    /\ Len(remtable) = 2
    /\ heap[remtable[2].rem] = <<>>
    /\ report.bottleneck = 100000
    /\ report.err = ""
    /\ ~report.nan

\* C15 as stated: the scenario gives the ledger [{day1, -1000, +1000}, {day5,
\* +1000, -1000}], an empty registry, bottleneck 1000 and a turnover rate of
\* 1000/1000/2 x 365/4 = 365/8.
C15_AsStated ==
    ScenarioReported => (ScenarioLedger /\ report.num * 8 = 365 * report.den)

\* C15 amended: the same ledger, registry and bottleneck, and a turnover rate
\* of 2000/1000/2 x 365/4 = 365/4, the sum of |cash| being 2000.
C15_Scenario ==
    ScenarioReported => (ScenarioLedger /\ report.num * 4 = 365 * report.den)

\* the scenario replayed to its second entry and reported
C15_Witness ==
    /\ ScenarioReported
    /\ Len(cftable) = 2
    /\ report.num = 200000 * 365

=============================================================================
